---- MODULE Spec2Model ----
(***************************************************************************)
(* A model of scripts/preprocessors.py of mscaudill/ebb: the preprocessors *)
(* standard() and spindle(), each run on one EDF file, and batch(), which  *)
(* maps a preprocessor over the EDF files of a directory with a process    *)
(* pool.                                                                   *)
(*                                                                         *)
(* Numbers.  trim_to holds hours.  A candidate is kept as the integer k    *)
(* that stands for k / HourDen hours, so that candidates which are not a   *)
(* whole number of seconds are covered; every product and quotient of the  *)
(* code is then computed exactly on numerators over HourDen.  The sampling *)
(* rate fs is a whole number of samples per second.                        *)
(*                                                                         *)
(* Header fields that the preprocessors copy without reading them          *)
(* (labels, digital_min/max, ...) are not part of the modelled header.     *)
(***************************************************************************)
EXTENDS Integers, Sequences, FiniteSets, TLC

\* ---------------------------------------------------------------- bounds
MaxN == 4
MaxFs == 2
MaxTick == 3
MaxCands == 2
SubSec == 2
MaxM == 2
MaxSpr == 2
MaxChan == 2
MaxSel == 2
MaxFiles == 3
MaxCores == 2

\* ------------------------------------------------------------- constants
SecondsPerHour == 3600

HourDen == SecondsPerHour * SubSec

VARIABLES
    \* one call of standard() or spindle()
    fn, pc, path, reader, reader_shape, reader_header, fs, downsample,
    trim_to, channels, idx, stop, processed, header, outfile, err,
    \* one call of batch()
    bpc, preprocessor, ncores, available, dirfiles, paths, workers, pool,
    pending, invoked, wrote, target, failed, berr, reported

callvars == <<fn, pc, path, reader, reader_shape, reader_header, fs,
              downsample, trim_to, channels, idx, stop, processed, header,
              outfile, err>>
batchvars == <<bpc, preprocessor, ncores, available, dirfiles, paths,
               workers, pool, pending, invoked, wrote, target, failed, berr,
               reported>>
vars == <<callvars, batchvars>>

\* ------------------------------------------------------------ arithmetic
Min(a, b) == IF a <= b THEN a ELSE b

\* np.ceil of the non-negative quotient num / den
Ceil(num, den) == (num + den - 1) \div den

\* int() of the non-negative quotient num / den
IntDiv(num, den) == num \div den

SeqsUpTo(S, lo, hi) == UNION {[1..k -> S] : k \in lo..hi}

Ascending(s) == \A i, j \in 1..Len(s) : i < j => s[i] < s[j]

\* ------------------------------------------------------------ file names
\* A file name is a sequence of characters.
EdfExt == <<"e", "d", "f">>

FileNames ==
    { <<"a", ".", "e", "d", "f">>,
      <<"b", ".", "e", "d", "f">>,
      <<"a", ".", "b", ".", "e", "d", "f">>,
      <<"a", "e", "d", "f">>,
      <<".", "e", "d", "f">>,
      <<"a", ".", "t", "x">> }

\* str.rfind('.') : the 0-based index of the last dot, -1 without one
RFindDot(name) ==
    LET dots == {i \in 1..Len(name) : name[i] = "."}
    IN  IF dots = {} THEN -1
        ELSE (CHOOSE i \in dots : \A j \in dots : j <= i) - 1

\* the naive split at the first dot
StemFirstDot(name) ==
    LET dots == {i \in 1..Len(name) : name[i] = "."}
    IN  IF dots = {} THEN name
        ELSE SubSeq(name, 1, (CHOOSE i \in dots : \A j \in dots : i <= j) - 1)

\* pathlib.PurePath.suffix
Suffix(name) ==
    LET i == RFindDot(name)
    IN  IF 0 < i /\ i < Len(name) - 1
        THEN SubSeq(name, i + 1, Len(name))
        ELSE <<>>

\* pathlib.PurePath.stem
Stem(name) ==
    LET i == RFindDot(name)
    IN  IF 0 < i /\ i < Len(name) - 1
        THEN SubSeq(name, 1, i)
        ELSE name

\* '_PREPROCESSED' and '_SPINDLE', each kept as one two-character mark
Marker(f) == IF f = "standard" THEN <<"_", "P">> ELSE <<"_", "S">>

\* fname = path.stem + marker + path.suffix
OutName(name, f) == Stem(name) \o Marker(f) \o Suffix(name)

\* Path.glob('*edf') : the names that end in edf
MatchesEdf(name) ==
    /\ Len(name) >= Len(EdfExt)
    /\ SubSeq(name, Len(name) - Len(EdfExt) + 1, Len(name)) = EdfExt

\* ------------------------------------------------------------- trim step
\* trim_samples = np.array(trim_to) * 3600 * fs, as numerators over HourDen
TrimSamples(tt, rate) == [i \in 1..Len(tt) |-> tt[i] * SecondsPerHour * rate]

RECURSIVE BisectRight(_, _, _, _)
BisectRight(a, v, lo, hi) ==
    IF lo >= hi THEN lo
    ELSE LET mid == (lo + hi) \div 2
         IN  IF v < a[mid + 1]
             THEN BisectRight(a, v, lo, mid)
             ELSE BisectRight(a, v, mid + 1, hi)

RECURSIVE BisectLeft(_, _, _, _)
BisectLeft(a, v, lo, hi) ==
    IF lo >= hi THEN lo
    ELSE LET mid == (lo + hi) \div 2
         IN  IF a[mid + 1] < v
             THEN BisectLeft(a, v, mid + 1, hi)
             ELSE BisectLeft(a, v, lo, mid)

\* side='left' in place of side='right'
SearchSortedLeft(a, n) == BisectLeft(a, n * HourDen, 0, Len(a))

\* np.searchsorted(trim_samples, n, side='right') on the sorted array a
SearchSorted(a, n) == BisectRight(a, n * HourDen, 0, Len(a))

\* stop = int(np.ceil(stop / fs) * fs), stop the numerator num over HourDen
RoundStop(num, rate) == Ceil(num, HourDen * rate) * rate

\* ------------------------------------------------- external collaborators
\* masks.between_pro(reader, 0, stop, ...): the samples of [0, stop) the
\* recording holds
BetweenLen(n, stp) == Min(n, stp)

\* resampling.downsample(...).to_array(): one sample out of every m; the
\* length of the last, incomplete group is the resampler's choice
DownsampleLens(n, m) == {n \div m, Ceil(n, m)}

\* Python sequence indexing, as the EDF writer applies it to the channel
\* indices it is given: -n..n-1 are accepted, negative ones count from the end
PyIndexOk(i, n) == -n <= i /\ i < n

PyIndex(i, n) == IF i < 0 THEN n + i ELSE i

WriterFilter(s, chans) ==
    [k \in 1..Len(chans) |-> s[PyIndex(chans[k], Len(s)) + 1]]

NoHeader == [samples_per_record |-> <<>>, reserved_0 |-> ""]

NoFile == [state |-> "absent", name |-> <<>>, header |-> NoHeader,
           nsamples |-> 0, channels |-> <<>>]

\* ncores=None, and ncores=k
NoRequest == [given |-> FALSE, n |-> 0]

Request(k) == [given |-> TRUE, n |-> k]

\* ------------------------------------------------------------- placeholder
BatchIdle ==
    /\ bpc = "idle" /\ preprocessor = "none" /\ ncores = NoRequest
    /\ available = 1 /\ dirfiles = {} /\ paths = {} /\ workers = -1
    /\ pool = <<>> /\ pending = {} /\ invoked = <<>> /\ wrote = {}
    /\ target = {} /\ failed = {} /\ berr = "" /\ reported = -1

CallIdle ==
    /\ fn = "none" /\ pc = "idle" /\ path = <<>> /\ reader = "unopened"
    /\ reader_shape = 0 /\ reader_header = NoHeader /\ fs = 1
    /\ downsample = 1 /\ trim_to = <<>> /\ channels = <<>> /\ idx = -1
    /\ stop = -1 /\ processed = -1 /\ header = NoHeader /\ outfile = NoFile
    /\ err = ""

\* ------------------------------------------------------------------- Init
SourceHeaders ==
    {[samples_per_record |-> s, reserved_0 |-> "EDF+C"] :
        s \in SeqsUpTo(1..MaxSpr, 1, MaxChan)}

InitStandard ==
    /\ fn = "standard"
    /\ reader_shape \in 0..MaxN
    /\ reader_header \in SourceHeaders
    /\ fs \in 1..MaxFs
    /\ downsample \in 1..MaxM
    /\ trim_to \in {s \in SeqsUpTo(1..MaxTick, 1, MaxCands) : Ascending(s)}
    /\ channels = <<>>

InitSpindle ==
    /\ fn = "spindle"
    /\ reader_shape \in {MaxN}
    /\ reader_header \in SourceHeaders
    /\ fs = 1 /\ downsample = 1 /\ trim_to = <<>>
    /\ channels \in SeqsUpTo(-1..MaxChan, 0, MaxSel)

Init ==
    /\ InitStandard \/ InitSpindle
    /\ pc = "open"
    /\ path = <<"a", ".", "e", "d", "f">>
    /\ reader = "unopened"
    /\ idx = -1 /\ stop = -1 /\ processed = -1
    /\ header = NoHeader /\ outfile = NoFile /\ err = ""
    /\ BatchIdle

\* ------------------------------------------------------------- standard()
\* fp = Path(path); reader = edf.Reader(fp)
StdOpen ==
    /\ fn = "standard" /\ pc = "open"
    /\ reader' = "open"
    /\ pc' = "trim"
    /\ UNCHANGED <<fn, path, reader_shape, reader_header, fs, downsample,
                   trim_to, channels, idx, stop, processed, header, outfile,
                   err>>
    /\ UNCHANGED batchvars

\* the trim step: searchsorted, the ValueError, the rounding of stop
StdTrim ==
    /\ fn = "standard" /\ pc = "trim"
    /\ LET trim_samples == TrimSamples(trim_to, fs)
           i == SearchSorted(trim_samples, reader_shape) - 1
       IN  /\ idx' = i
           /\ IF i < 0
              THEN /\ err' = "ValueError"
                   /\ pc' = "raised"
                   /\ stop' = stop
              ELSE /\ stop' = RoundStop(trim_samples[i + 1], fs)
                   /\ pc' = "build"
                   /\ err' = err
    /\ UNCHANGED <<fn, path, reader, reader_shape, reader_header, fs,
                   downsample, trim_to, channels, processed, header, outfile>>
    /\ UNCHANGED batchvars

\* pro = between_pro(...); result = downsample(...); processed = to_array()
StdBuild ==
    /\ fn = "standard" /\ pc = "build"
    /\ \/ /\ processed' \in
                DownsampleLens(BetweenLen(reader_shape, stop), downsample)
          /\ pc' = "header"
          /\ err' = err
       \/ /\ processed' = processed
          /\ pc' = "raised"
          /\ err' = "ResampleError"
    /\ UNCHANGED <<fn, path, reader, reader_shape, reader_header, fs,
                   downsample, trim_to, channels, idx, stop, header, outfile>>
    /\ UNCHANGED batchvars

\* [x // m for x in header.samples_per_record]
FloorSpr(spr, m) == [c \in 1..Len(spr) |-> spr[c] \div m]

\* the header written with the processed data
NewHeader(src, m, rate, nproc) ==
    [samples_per_record |-> FloorSpr(src.samples_per_record, m),
     num_records |-> IntDiv(nproc * m, rate),
     reserved_0 |-> ""]

StdHeader ==
    /\ fn = "standard" /\ pc = "header"
    /\ header' = NewHeader(reader_header, downsample, fs, processed)
    /\ pc' = "write"
    /\ UNCHANGED <<fn, path, reader, reader_shape, reader_header, fs,
                   downsample, trim_to, channels, idx, stop, processed,
                   outfile, err>>
    /\ UNCHANGED batchvars

AllChannels(h) == [c \in 1..Len(h.samples_per_record) |-> c - 1]

\* with edf.Writer(filepath) as writer: writer.write(header, processed,
\* reader.channels, verbose).  Entering the writer creates the file.
StdWrite ==
    /\ fn = "standard" /\ pc = "write"
    /\ LET fname == OutName(path, "standard")
       IN  \/ /\ outfile' = [state |-> "complete", name |-> fname,
                             header |-> header, nsamples |-> processed,
                             channels |-> AllChannels(reader_header)]
              /\ pc' = "close"
              /\ err' = err
           \/ /\ outfile' = [NoFile EXCEPT !.state = "partial",
                                           !.name = fname]
              /\ pc' = "raised"
              /\ err' = "WriteError"
    /\ UNCHANGED <<fn, path, reader, reader_shape, reader_header, fs,
                   downsample, trim_to, channels, idx, stop, processed,
                   header>>
    /\ UNCHANGED batchvars

\* reader.close()
StdClose ==
    /\ fn = "standard" /\ pc = "close"
    /\ reader' = "closed"
    /\ pc' = "returned"
    /\ UNCHANGED <<fn, path, reader_shape, reader_header, fs, downsample,
                   trim_to, channels, idx, stop, processed, header, outfile,
                   err>>
    /\ UNCHANGED batchvars

\* -------------------------------------------------------------- spindle()
SpOpen ==
    /\ fn = "spindle" /\ pc = "open"
    /\ reader' = "open"
    /\ pc' = "read"
    /\ UNCHANGED <<fn, path, reader_shape, reader_header, fs, downsample,
                   trim_to, channels, idx, stop, processed, header, outfile,
                   err>>
    /\ UNCHANGED batchvars

\* data = reader.read(0); header = copy.deepcopy(reader.header)
SpRead ==
    /\ fn = "spindle" /\ pc = "read"
    /\ processed' = reader_shape
    /\ header' = reader_header
    /\ pc' = "write"
    /\ UNCHANGED <<fn, path, reader, reader_shape, reader_header, fs,
                   downsample, trim_to, channels, idx, stop, outfile, err>>
    /\ UNCHANGED batchvars

\* with edf.Writer(filepath) as writer: writer.write(header, data, channels,
\* verbose).  spindle() checks nothing itself: the writer indexes the header
\* and the data with the channels it is handed.
SpWrite ==
    /\ fn = "spindle" /\ pc = "write"
    /\ LET fname == OutName(path, "spindle")
           n == Len(header.samples_per_record)
       IN  IF \A k \in 1..Len(channels) : PyIndexOk(channels[k], n)
           THEN \/ /\ outfile' =
                        [state |-> "complete", name |-> fname,
                         header |-> [header EXCEPT !.samples_per_record =
                                         WriterFilter(@, channels)],
                         nsamples |-> processed,
                         channels |-> WriterFilter(AllChannels(header),
                                                   channels)]
                   /\ pc' = "close"
                   /\ err' = err
                \/ /\ outfile' = [NoFile EXCEPT !.state = "partial",
                                                !.name = fname]
                   /\ pc' = "raised"
                   /\ err' = "WriteError"
           ELSE /\ outfile' = [NoFile EXCEPT !.state = "partial",
                                             !.name = fname]
                /\ pc' = "raised"
                /\ err' = "IndexError"
    /\ UNCHANGED <<fn, path, reader, reader_shape, reader_header, fs,
                   downsample, trim_to, channels, idx, stop, processed,
                   header>>
    /\ UNCHANGED batchvars

SpClose ==
    /\ fn = "spindle" /\ pc = "close"
    /\ reader' = "closed"
    /\ pc' = "returned"
    /\ UNCHANGED <<fn, path, reader_shape, reader_header, fs, downsample,
                   trim_to, channels, idx, stop, processed, header, outfile,
                   err>>
    /\ UNCHANGED batchvars

Next ==
    \/ StdOpen \/ StdTrim \/ StdBuild \/ StdHeader \/ StdWrite \/ StdClose
    \/ SpOpen \/ SpRead \/ SpWrite \/ SpClose

Spec == Init /\ [][Next]_vars

\* ---------------------------------------------------------------- batch()
\* concurrency.set_cores(ncores, len(paths))
set_cores(request, avail, max_size) ==
    Min(Min(IF request.given THEN request.n ELSE avail, avail), max_size)

IdleSlot == [busy |-> FALSE, task |-> <<>>]

BatchInit ==
    /\ CallIdle
    /\ bpc = "mkdir"
    /\ preprocessor \in {"standard", "spindle"}
    /\ ncores \in {NoRequest} \cup {Request(k) : k \in 1..(MaxCores + 1)}
    /\ available \in 1..MaxCores
    /\ dirfiles \in {d \in SUBSET FileNames : Cardinality(d) <= MaxFiles}
    /\ paths = {} /\ workers = -1 /\ pool = <<>> /\ pending = {}
    /\ invoked = <<>> /\ wrote = {} /\ target = {} /\ failed = {}
    /\ berr = "" /\ reported = -1

\* workers = len(paths): one worker per file, whatever the machine has
BGlobWorkerPerFile ==
    /\ bpc = "glob"
    /\ LET found == {f \in dirfiles : MatchesEdf(f)}
       IN  /\ paths' = found
           /\ workers' = Cardinality(found)
           /\ invoked' = [p \in found |-> 0]
    /\ bpc' = "pool"
    /\ UNCHANGED <<preprocessor, ncores, available, dirfiles, pool, pending,
                   wrote, target, failed, berr, reported>>
    /\ UNCHANGED callvars

\* the jobs' exceptions are dropped (map_async without get)
BMapReturnSwallow ==
    /\ bpc = "map"
    /\ pending = {}
    /\ \A i \in 1..Len(pool) : ~pool[i].busy
    /\ bpc' = "summary"
    /\ UNCHANGED <<preprocessor, ncores, available, dirfiles, paths, workers,
                   pool, pending, invoked, wrote, target, failed, berr,
                   reported>>
    /\ UNCHANGED callvars

\* target.mkdir(): raises when the directory exists
BMkdir ==
    /\ bpc = "mkdir"
    /\ \/ /\ bpc' = "glob"
          /\ berr' = berr
       \/ /\ bpc' = "raised"
          /\ berr' = "FileExistsError"
    /\ UNCHANGED <<preprocessor, ncores, available, dirfiles, paths, workers,
                   pool, pending, invoked, wrote, target, failed, reported>>
    /\ UNCHANGED callvars

\* paths = list(Path(dirpath).glob('*edf')); workers = set_cores(...)
BGlob ==
    /\ bpc = "glob"
    /\ LET found == {f \in dirfiles : MatchesEdf(f)}
       IN  /\ paths' = found
           /\ workers' = set_cores(ncores, available, Cardinality(found))
           /\ invoked' = [p \in found |-> 0]
    /\ bpc' = "pool"
    /\ UNCHANGED <<preprocessor, ncores, available, dirfiles, pool, pending,
                   wrote, target, failed, berr, reported>>
    /\ UNCHANGED callvars

\* with Pool(workers) as pool: Pool raises ValueError below one process
BPool ==
    /\ bpc = "pool"
    /\ IF workers < 1
       THEN /\ bpc' = "raised"
            /\ berr' = "ValueError"
            /\ UNCHANGED <<pool, pending>>
       ELSE /\ pool' = [i \in 1..workers |-> IdleSlot]
            /\ pending' = paths
            /\ bpc' = "map"
            /\ berr' = berr
    /\ UNCHANGED <<preprocessor, ncores, available, dirfiles, paths, workers,
                   invoked, wrote, target, failed, reported>>
    /\ UNCHANGED callvars

\* pool.map(func, paths): an idle worker takes a path not yet handed out.
\* The order of paths is the file system's, so any pending path may be next.
WTake(i) ==
    /\ bpc = "map"
    /\ ~pool[i].busy
    /\ \E p \in pending :
          /\ pool' = [pool EXCEPT ![i] = [busy |-> TRUE, task |-> p]]
          /\ pending' = pending \ {p}
          /\ invoked' = [invoked EXCEPT ![p] = @ + 1]
    /\ UNCHANGED <<bpc, preprocessor, ncores, available, dirfiles, paths,
                   workers, wrote, target, failed, berr, reported>>
    /\ UNCHANGED callvars

\* func(path) = preprocessor(path, savedir=target, **kwargs) in worker i:
\* it writes its output file and returns, or it raises
WRun(i) ==
    /\ bpc = "map"
    /\ pool[i].busy
    /\ LET p == pool[i].task
           fname == OutName(p, preprocessor)
       IN  \/ /\ wrote' = wrote \cup {<<p, fname>>}
              /\ target' = target \cup {fname}
              /\ failed' = failed
           \/ /\ failed' = failed \cup {p}
              /\ UNCHANGED <<wrote, target>>
    /\ pool' = [pool EXCEPT ![i] = IdleSlot]
    /\ UNCHANGED <<bpc, preprocessor, ncores, available, dirfiles, paths,
                   workers, pending, invoked, berr, reported>>
    /\ UNCHANGED callvars

\* map() returns once every job has ended, and re-raises a job's exception
BMapReturn ==
    /\ bpc = "map"
    /\ pending = {}
    /\ \A i \in 1..Len(pool) : ~pool[i].busy
    /\ IF failed = {}
       THEN /\ bpc' = "summary"
            /\ berr' = berr
       ELSE /\ bpc' = "raised"
            /\ berr' = "JobError"
    /\ UNCHANGED <<preprocessor, ncores, available, dirfiles, paths, workers,
                   pool, pending, invoked, wrote, target, failed, reported>>
    /\ UNCHANGED callvars

\* print(f'Saved {len(paths)} files to {target} in {elapsed} s')
BSummary ==
    /\ bpc = "summary"
    /\ reported' = Cardinality(paths)
    /\ bpc' = "done"
    /\ UNCHANGED <<preprocessor, ncores, available, dirfiles, paths, workers,
                   pool, pending, invoked, wrote, target, failed, berr>>
    /\ UNCHANGED callvars

BatchNext ==
    \/ BMkdir \/ BGlob \/ BPool
    \/ \E i \in DOMAIN pool : WTake(i)
    \/ \E i \in DOMAIN pool : WRun(i)
    \/ BMapReturn \/ BSummary

BatchSpec == BatchInit /\ [][BatchNext]_vars

\* ================================================================ claims
Ended == pc \in {"returned", "raised"}

Trimmed == fn = "standard" /\ pc \notin {"open", "trim"}

\* A candidate k stands for k / HourDen hours, that is k * fs / SubSec
\* samples: it does not exceed n samples when k * fs <= n * SubSec.
Qualifying == {i \in DOMAIN trim_to : trim_to[i] * fs <= reader_shape * SubSec}

Largest(Q) == CHOOSE i \in Q : \A j \in Q : trim_to[j] <= trim_to[i]

\* the least multiple of fs that is not below the samples of candidate k
UpToMultiple(k) ==
    LET mults == {j * fs : j \in 0..k}
        above == {x \in mults : x * SubSec >= k * fs}
    IN  CHOOSE x \in above : \A y \in above : x <= y

\* C1: after the trim step of standard(), with trim_to ascending, the
\* function has raised its ValueError exactly when the recording holds
\* fewer samples than the smallest candidate; otherwise the candidate it
\* selected is the largest one whose sample count t*3600*fs does not exceed
\* the recording's, and stop is that count rounded up to the nearest
\* multiple of fs.
C1_TrimSelectsLargestFitting ==
    Trimmed =>
        /\ (err = "ValueError") <=>
              (\A i \in DOMAIN trim_to : reader_shape * SubSec < trim_to[i] * fs)
        /\ Qualifying # {} =>
              /\ idx + 1 = Largest(Qualifying)
              /\ stop = UpToMultiple(trim_to[Largest(Qualifying)])

\* of two candidates the first is selected, and rounding moved the stop
C1_Witness ==
    /\ fn = "standard" /\ pc = "build"
    /\ Len(trim_to) = 2 /\ idx = 0
    /\ stop * SubSec > trim_to[1] * fs

\* C2: every header standard() writes satisfies, for every channel c,
\* num_records * samples_per_record[c] = the number of transformed samples.
C2_HeaderMatchesData ==
    (fn = "standard" /\ outfile.state = "complete") =>
        \A c \in DOMAIN outfile.header.samples_per_record :
            outfile.header.num_records * outfile.header.samples_per_record[c]
                = outfile.nsamples

\* C3: every samples_per_record entry standard() writes is the source's
\* divided by the downsample factor exactly, and when the factor does not
\* divide some channel's entry standard() ends in an error with no output
\* file.
C3_ExactDivisionOrError ==
    fn = "standard" =>
        /\ outfile.state = "complete" =>
              \A c \in DOMAIN reader_header.samples_per_record :
                  outfile.header.samples_per_record[c] * downsample
                      = reader_header.samples_per_record[c]
        /\ (/\ Ended
            /\ err # "ValueError"
            /\ \E c \in DOMAIN reader_header.samples_per_record :
                  reader_header.samples_per_record[c] % downsample # 0)
              => (pc = "raised" /\ outfile.state = "absent")

\* C4: standard() and spindle() never end, by return or by exception, with
\* the reader they opened still open.
C4_ReaderClosedOnExit ==
    Ended => reader = "closed"

\* C8: when spindle() has ended (a failing disk apart) and some requested
\* channel index is outside 0..C-1 it has raised and no output file exists;
\* when all are inside and it returned, the output holds exactly the
\* requested channels in the requested order.
C8_SpindleChecksChannels ==
    (fn = "spindle" /\ Ended /\ err # "WriteError") =>
        LET n == Len(reader_header.samples_per_record)
            bad == \E k \in DOMAIN channels : channels[k] \notin 0..(n - 1)
        IN  /\ bad => (pc = "raised" /\ outfile.state = "absent")
            /\ (~bad /\ pc = "returned") =>
                  /\ outfile.channels = channels
                  /\ Len(outfile.header.samples_per_record) = Len(channels)

\* C9: whenever the trim step of standard() succeeds, the rounded stop index
\* does not exceed the recording's sample count.
C9_StopInsideRecording ==
    (Trimmed /\ err # "ValueError") => stop <= reader_shape

\* -------------------------------------------------------- claims on batch
BEnded == bpc \in {"done", "raised"}

\* C5: no enumerated file is handed to more than one job, no two jobs write
\* the same output path (the output name is injective on the enumerated
\* names), and when batch() completes every file was handed out once and
\* the output files correspond one to one to the enumerated files.
C5_OneJobOneOutputPerFile ==
    /\ \A p \in DOMAIN invoked : invoked[p] <= 1
    /\ \A x, y \in wrote : x[2] = y[2] => x[1] = y[1]
    /\ \A p, q \in paths :
          OutName(p, preprocessor) = OutName(q, preprocessor) => p = q
    /\ bpc \in {"summary", "done"} =>
          /\ \A p \in paths : invoked[p] = 1
          /\ target = {OutName(p, preprocessor) : p \in paths}
          /\ Cardinality(target) = Cardinality(paths)

\* two workers ran and three files were written
C5_Witness ==
    /\ bpc = "done" /\ workers >= 2
    /\ Cardinality(paths) >= 3 /\ Cardinality(target) >= 3

Sized ==
    \/ bpc \in {"pool", "map", "summary", "done"}
    \/ bpc = "raised" /\ berr # "FileExistsError"

C7_ZeroFilesNoOp ==
    (/\ BEnded
     /\ berr # "FileExistsError"
     /\ \A f \in dirfiles : ~MatchesEdf(f))
        => /\ bpc = "done" /\ berr = ""
           /\ reported = 0 /\ target = {} /\ wrote = {}

\* C10: batch() reaches its summary only when every enumerated file's job
\* ended without error, and once the jobs are over with a failed one,
\* batch() has raised that failure.
C10_FailurePropagates ==
    /\ (bpc \in {"summary", "done"} \/ reported # -1) =>
          /\ failed = {}
          /\ \A p \in paths : <<p, OutName(p, preprocessor)>> \in wrote
    /\ (failed # {} /\ bpc # "map") => (bpc = "raised" /\ berr = "JobError")

\* one job wrote its file, another failed, and batch() raised
C10_Witness ==
    /\ bpc = "raised" /\ berr = "JobError"
    /\ wrote # {} /\ failed # {}

====
